---- MODULE Spec2Model ----
(***************************************************************************)
(* Breakout detection pipeline of v20.py: main's loop over the symbols,    *)
(* and the stages it runs on each symbol's DataFrame (mark_keywords,       *)
(* assign_groups, calculate_percentage_differences, identify_valid_groups, *)
(* remove_invalid_rows, transform_valid_groups).                           *)
(*                                                                         *)
(* A DataFrame is a sequence of rows (records, one field per column); the  *)
(* DatetimeIndex is the column Date.  A str is a sequence of characters.   *)
(* A float is kept exact: PercentageDifference is the pair (num, den) of   *)
(* ((High - Low) * 100, Low), den = 0 being numpy's inf (num > 0) or nan   *)
(* (num = 0): numpy divides by zero without raising.                       *)
(***************************************************************************)
EXTENDS Integers, Sequences, FiniteSets, TLC

VARIABLES
    symbols,        \* main: the list read_symbols_from_csv returned
    market,         \* what yf.download answers for each ticker, today
    i,              \* main: position of the for loop in symbols
    pc,             \* main: the statement about to run
    stock_data,     \* main: the local stock_data
    combined_data,  \* main: the local combined_data
    csv,            \* the file save_to_csv writes: whether written, and its rows
    error           \* the exception that ended main ("none" while running)

vars == <<symbols, market, i, pc, stock_data, combined_data, csv, error>>

----------------------------------------------------------------------------
(* Bounds and input domains *)

MaxBars == 3
MaxSymbols == 3

PERCENTAGE_THRESHOLD == 20

\* Thresholds the threshold claims are evaluated at; the program's is 20.
Thresholds == {PERCENTAGE_THRESHOLD, 40, 100}

\* 6 is 20% above 5 (on the threshold), 7 is 16.7% above 6 (below it), 7 is
\* 40% above 5 (above it), and a Low of 0 makes the division a division by 0.
Lows == {0, 5, 6}
Highs == {6, 7}

\* A candle: Low <= Open, Close <= High.  Rising, falling, and flat
\* (Open = Close) bodies over every (Low, High).
Bars ==
    { [Open |-> o, High |-> h, Low |-> l, Close |-> c] :
        <<o, h, l, c>> \in
            { q \in (Lows \cup Highs) \X Highs \X Lows \X (Lows \cup Highs) :
                /\ q[3] <= q[2]
                /\ \/ q[1] = q[3] /\ q[4] = q[2]
                   \/ q[1] = q[2] /\ q[4] = q[3]
                   \/ q[1] = q[2] /\ q[4] = q[2] } }

\* The two candles of the batch runs: one rising, one falling, Low 5, High 7.
BatchBars == { b \in Bars : b.Low = 5 /\ b.High = 7 /\ b.Open # b.Close }

SeqsUpTo(S, n) == UNION { [1..k -> S] : k \in 0..n }

NSE == <<".", "N", "S">>
SymbolSet == { <<"T", "C", "S">>, <<"I", "T", "C">> \o NSE }

\* yf.download raised
DownloadError == [raised |-> TRUE, bars |-> <<>>]

\* yf.download returned these bars
Downloaded(bars) == [raised |-> FALSE, bars |-> bars]

Range(s) == { s[k] : k \in 1..Len(s) }

----------------------------------------------------------------------------
(* str and Series helpers *)

green == <<"g", "r", "e", "e", "n">>
red == <<"r", "e", "d">>

\* Series.shift() puts NaN in front; NaN differs from every keyword.
NaN == <<"N", "a", "N">>

Digit(d) == <<"0", "1", "2", "3", "4", "5", "6", "7", "8", "9">>[d + 1]

\* str(n) of an int n >= 0: GroupID.astype(str)
RECURSIVE Str(_)
Str(n) == IF n < 10 THEN <<Digit(n)>> ELSE Str(n \div 10) \o <<Digit(n % 10)>>

\* str.endswith
EndsWith(s, suffix) ==
    /\ Len(s) >= Len(suffix)
    /\ SubSeq(s, Len(s) - Len(suffix) + 1, Len(s)) = suffix

\* the str operator `sub in s`
Contains(s, sub) ==
    \E k \in 0..(Len(s) - Len(sub)) : SubSeq(s, k + 1, k + Len(sub)) = sub

\* Series.unique(): the distinct values in order of first appearance
RECURSIVE Unique(_)
Unique(s) ==
    IF s = <<>> THEN <<>>
    ELSE LET front == Unique(SubSeq(s, 1, Len(s) - 1))
             last == s[Len(s)]
         IN  IF last \in Range(front) THEN front ELSE Append(front, last)

\* Series.cumsum() of a boolean Series
RECURSIVE CumSum(_)
CumSum(flags) ==
    IF flags = <<>> THEN <<>>
    ELSE LET front == CumSum(SubSeq(flags, 1, Len(flags) - 1))
             before == IF front = <<>> THEN 0 ELSE front[Len(front)]
         IN  Append(front, before + (IF flags[Len(flags)] THEN 1 ELSE 0))

\* Series.min() and Series.max() of a non-empty set of numbers
Min(S) == CHOOSE x \in S : \A y \in S : x <= y
Max(S) == CHOOSE x \in S : \A y \in S : x >= y

\* [v] * n
Repeat(v, n) == [k \in 1..n |-> v]

\* stock_data[col]
Column(df, col) == [k \in 1..Len(df) |-> df[k][col]]

\* stock_data[col] = values, a new column
WithColumn(df, col, values) == [k \in 1..Len(df) |-> df[k] @@ (col :> values[k])]

\* GreaterEqual with > for >=
Greater(pd, threshold) ==
    IF pd.den > 0 THEN pd.num > threshold * pd.den ELSE pd.num > 0

\* GreaterEqual with <= for >=
LessEqual(pd, threshold) ==
    IF pd.den > 0 THEN pd.num <= threshold * pd.den ELSE FALSE

\* a float compared with the threshold (no price is negative): x / 0 is inf
\* for x > 0 (inf >= t), and 0 / 0 is nan (nan >= t is False)
GreaterEqual(pd, threshold) ==
    IF pd.den > 0 THEN pd.num >= threshold * pd.den ELSE pd.num > 0

----------------------------------------------------------------------------
(* The stages *)

\* yf.download's ticker
Ticker(symbol) == IF ~EndsWith(symbol, NSE) THEN symbol \o NSE ELSE symbol

fetch_stock_data(symbol, bars) ==
    [k \in 1..Len(bars) |-> bars[k] @@ [Date |-> k, Symbol |-> symbol]]

\* mark_keywords with <= for <
mark_keywords_le(df) ==
    WithColumn(df, "Keyword",
        [k \in 1..Len(df) |-> IF df[k].Open <= df[k].Close THEN green ELSE red])

mark_keywords(df) ==
    WithColumn(df, "Keyword",
        [k \in 1..Len(df) |-> IF df[k].Open < df[k].Close THEN green ELSE red])

\* assign_groups numbering the directions, not the runs
assign_groups_by_keyword(df) ==
    LET Keyword == Column(df, "Keyword")
        GroupID == [k \in 1..Len(df) |-> IF Keyword[k] = Keyword[1] THEN 1 ELSE 2]
        Group == [k \in 1..Len(df) |-> Keyword[k] \o <<"_">> \o Str(GroupID[k])]
    IN  WithColumn(WithColumn(df, "GroupID", GroupID), "Group", Group)

assign_groups(df) ==
    LET Keyword == Column(df, "Keyword")
        shifted == IF Keyword = <<>> THEN <<>>
                   ELSE <<NaN>> \o SubSeq(Keyword, 1, Len(Keyword) - 1)
        GroupID == CumSum([k \in 1..Len(df) |-> Keyword[k] # shifted[k]])
        Group == [k \in 1..Len(df) |-> Keyword[k] \o <<"_">> \o Str(GroupID[k])]
    IN  WithColumn(WithColumn(df, "GroupID", GroupID), "Group", Group)

\* lines 71-73: one group's percentage_diff
percentage_diff(group_data) ==
    LET lowest_low == Min(Range(Column(group_data, "Low")))
        highest_high == Max(Range(Column(group_data, "High")))
    IN  [num |-> (highest_high - lowest_low) * 100, den |-> lowest_low]

\* lines 68-74: the list percentage_diffs after the loop over the given ids
RECURSIVE percentage_diffs(_, _)
percentage_diffs(df, group_ids) ==
    IF group_ids = <<>> THEN <<>>
    ELSE LET group_id == group_ids[Len(group_ids)]
             group_data == SelectSeq(df, LAMBDA row : row.GroupID = group_id)
         IN  percentage_diffs(df, SubSeq(group_ids, 1, Len(group_ids) - 1))
                 \o Repeat(percentage_diff(group_data), Len(group_data))

\* calculate_percentage_differences taking min and max over stock_data, not
\* over group_data
calculate_percentage_differences_whole(df) ==
    WithColumn(df, "PercentageDifference", Repeat(percentage_diff(df), Len(df)))

calculate_percentage_differences(df) ==
    WithColumn(df, "PercentageDifference",
               percentage_diffs(df, Unique(Column(df, "GroupID"))))

\* lines 89-94: the list valid_groups after the loop over the given names
RECURSIVE valid_groups(_, _, _)
valid_groups(df, group_names, threshold) ==
    IF group_names = <<>> THEN <<>>
    ELSE LET group_name == group_names[Len(group_names)]
             group_data == SelectSeq(df, LAMBDA row : row.Group = group_name)
             before == valid_groups(df, SubSeq(group_names, 1, Len(group_names) - 1),
                                    threshold)
         IN  IF /\ Contains(group_name, green)
                /\ GreaterEqual(group_data[1].PercentageDifference, threshold)
             THEN Append(before, group_name)
             ELSE before

\* identify_valid_groups with PERCENTAGE_THRESHOLD = threshold
identify_valid_groups_at(df, threshold) ==
    LET valid == valid_groups(df, Unique(Column(df, "Group")), threshold)
    IN  WithColumn(df, "ValidGroup",
            [k \in 1..Len(df) |->
                IF df[k].Group \in Range(valid) THEN df[k].Group ELSE <<>>])

identify_valid_groups(df) == identify_valid_groups_at(df, PERCENTAGE_THRESHOLD)

remove_invalid_rows(df) == SelectSeq(df, LAMBDA row : row.ValidGroup # <<>>)

\* lines 120-136: the list transformed_data after the loop over the given names
RECURSIVE transformed_data(_, _)
transformed_data(df, group_names) ==
    IF group_names = <<>> THEN <<>>
    ELSE LET group_name == group_names[Len(group_names)]
             group_data == SelectSeq(df, LAMBDA row : row.ValidGroup = group_name)
             before == transformed_data(df, SubSeq(group_names, 1, Len(group_names) - 1))
         IN  IF group_name # <<>>
             THEN Append(before,
                    [Symbol |-> group_data[1].Symbol,
                     LowestLow |-> Min(Range(Column(group_data, "Low"))),
                     HighestHigh |-> Max(Range(Column(group_data, "High"))),
                     EarliestDate |-> Min(Range(Column(group_data, "Date"))),
                     PercentageDifference |-> group_data[1].PercentageDifference,
                     ValidGroup |-> group_name])
             ELSE before

\* transform_valid_groups reading Low and High off the group's first row
transform_valid_groups_first_row(df) ==
    LET rows == transformed_data(df, Unique(Column(df, "ValidGroup")))
    IN  [k \in 1..Len(rows) |->
            LET first == CHOOSE j \in 1..Len(df) :
                             /\ df[j].ValidGroup = rows[k].ValidGroup
                             /\ df[j].Date = rows[k].EarliestDate
            IN  [rows[k] EXCEPT !.LowestLow = df[first].Low,
                                !.HighestHigh = df[first].High]]

transform_valid_groups(df) == transformed_data(df, Unique(Column(df, "ValidGroup")))

----------------------------------------------------------------------------
(* main *)

Tickers == { Ticker(symbol) : symbol \in SymbolSet }

\* what yf.download can answer: it raises, or returns the bars (none, for a
\* ticker without data in the window)
Answers(bars) == { Downloaded(s) : s \in SeqsUpTo(bars, MaxBars) } \cup {DownloadError}

\* lines 174-182: main up to the for loop, over the given inputs (a ticker
\* main never asks for has no answer worth telling apart)
Start(lists, answers) ==
    /\ symbols \in lists
    /\ LET listed == { Ticker(symbol) : symbol \in Range(symbols) }
       IN  market \in { [t \in Tickers |-> IF t \in listed THEN f[t] ELSE DownloadError] :
                          f \in [listed -> answers] }
    /\ i = 1
    /\ pc = "for"
    /\ stock_data = <<>>
    /\ combined_data = <<>>
    /\ csv = [written |-> FALSE, rows |-> <<>>]
    /\ error = "none"

\* one symbol, every bar sequence
Init == Start({<<CHOOSE symbol \in SymbolSet : ~EndsWith(symbol, NSE)>>}, Answers(Bars))

\* several symbols, the bar sequences of two candles
InitBatch == Start(SeqsUpTo(SymbolSet, MaxSymbols), Answers(BatchBars))

\* an exception leaves main: nothing catches it
Raise(exception) ==
    /\ pc' = "raised"
    /\ error' = exception
    /\ UNCHANGED <<symbols, market, i, stock_data, combined_data, csv>>

\* stock_data = df, and main moves on to next
Stage(df, next) ==
    /\ stock_data' = df
    /\ pc' = next
    /\ UNCHANGED <<symbols, market, i, combined_data, csv, error>>

\* line 185, yf.download returns
Fetch ==
    /\ pc = "for"
    /\ i <= Len(symbols)
    /\ ~market[Ticker(symbols[i])].raised
    /\ stock_data' = fetch_stock_data(symbols[i], market[Ticker(symbols[i])].bars)
    /\ pc' = "mark_keywords"
    /\ UNCHANGED <<symbols, market, i, combined_data, csv, error>>

\* line 185, yf.download raises
FetchRaises ==
    /\ pc = "for"
    /\ i <= Len(symbols)
    /\ market[Ticker(symbols[i])].raised
    /\ Raise("DownloadError")

\* line 186.  On a frame without rows DataFrame.apply(axis=1) returns, by the
\* pandas version, a float64 Series without rows (MarkKeywords) or a copy of
\* the frame, which line 39 cannot assign to one column (MarkKeywordsRaises).
MarkKeywords ==
    /\ pc = "mark_keywords"
    /\ Stage(mark_keywords(stock_data), "assign_groups")

MarkKeywordsRaises ==
    /\ pc = "mark_keywords"
    /\ stock_data = <<>>
    /\ Raise("ValueError")

\* line 187
AssignGroups ==
    /\ pc = "assign_groups"
    /\ stock_data # <<>>
    /\ Stage(assign_groups(stock_data), "calculate_percentage_differences")

\* line 187 on a frame without rows: Keyword is float64, and line 54's .str
\* is refused ("Can only use .str accessor with string values")
AssignGroupsRaises ==
    /\ pc = "assign_groups"
    /\ stock_data = <<>>
    /\ Raise("AttributeError")

\* line 188
CalculatePercentageDifferences ==
    /\ pc = "calculate_percentage_differences"
    /\ Stage(calculate_percentage_differences(stock_data), "identify_valid_groups")

\* line 189
IdentifyValidGroups ==
    /\ pc = "identify_valid_groups"
    /\ Stage(identify_valid_groups(stock_data), "remove_invalid_rows")

\* line 190
RemoveInvalidRows ==
    /\ pc = "remove_invalid_rows"
    /\ Stage(remove_invalid_rows(stock_data), "transform_valid_groups")

\* line 191
TransformValidGroups ==
    /\ pc = "transform_valid_groups"
    /\ Stage(transform_valid_groups(stock_data), "concat")

\* concat with the new rows in front
concat_in_front(combined, df) == df \o combined

\* pd.concat([combined_data, stock_data])
concat(combined, df) == combined \o df

\* line 192, and back to the head of the loop
Concat ==
    /\ pc = "concat"
    /\ combined_data' = concat(combined_data, stock_data)
    /\ i' = i + 1
    /\ pc' = "for"
    /\ UNCHANGED <<symbols, market, stock_data, csv, error>>

\* line 194, after the last symbol
SaveToCsv ==
    /\ pc = "for"
    /\ i > Len(symbols)
    /\ csv' = [written |-> TRUE, rows |-> combined_data]
    /\ pc' = "done"
    /\ UNCHANGED <<symbols, market, i, stock_data, combined_data, error>>

Next ==
    \/ Fetch
    \/ FetchRaises
    \/ MarkKeywords
    \/ MarkKeywordsRaises
    \/ AssignGroups
    \/ AssignGroupsRaises
    \/ CalculatePercentageDifferences
    \/ IdentifyValidGroups
    \/ RemoveInvalidRows
    \/ TransformValidGroups
    \/ Concat
    \/ SaveToCsv

Spec == Init /\ [][Next]_vars

SpecBatch == InitBatch /\ [][Next]_vars

----------------------------------------------------------------------------
(* Runs, read off the bars themselves *)

\* the bars fetched for the symbol main is at
CurrentBars == market[Ticker(symbols[i])].bars

Up(B, k) == B[k].Open < B[k].Close

\* bars a..b all have the direction of bar a
SameDirection(B, a, b) == \A j \in a..b : Up(B, j) = Up(B, a)

\* the positions of the run bar k is in
RunOf(B, k) ==
    { j \in 1..Len(B) : IF j <= k THEN SameDirection(B, j, k) ELSE SameDirection(B, k, j) }

RunLow(B, k) == Min({ B[j].Low : j \in RunOf(B, k) })
RunHigh(B, k) == Max({ B[j].High : j \in RunOf(B, k) })

\* the first positions of the up runs
UpRunStarts(B) == { a \in 1..Len(B) : Up(B, a) /\ (a = 1 \/ ~Up(B, a - 1)) }

\* (high - low) / low * 100 >= t for the run of bar k; with low = 0 the
\* quotient is inf, which is >= t
Qualifies(B, k, t) ==
    IF RunLow(B, k) > 0
    THEN (RunHigh(B, k) - RunLow(B, k)) * 100 >= t * RunLow(B, k)
    ELSE RunHigh(B, k) > RunLow(B, k)

QualifyingStarts(B, t) == { a \in UpRunStarts(B) : Qualifies(B, a, t) }

\* the stages at which the rows of stock_data are bars
HasBars ==
    pc \in {"mark_keywords", "assign_groups", "calculate_percentage_differences",
            "identify_valid_groups", "remove_invalid_rows", "transform_valid_groups"}

\* the stages at which stock_data has every bar and the named column
HasKeyword ==
    pc \in {"assign_groups", "calculate_percentage_differences",
            "identify_valid_groups", "remove_invalid_rows"}
HasGroupID ==
    pc \in {"calculate_percentage_differences", "identify_valid_groups",
            "remove_invalid_rows"}
HasPercentageDifference == pc \in {"identify_valid_groups", "remove_invalid_rows"}
HasValidGroup == pc \in {"remove_invalid_rows", "transform_valid_groups"}

----------------------------------------------------------------------------
(* Claims *)

\* C1: after assign_groups every bar is still there with one GroupID, equal
\* GroupIDs are contiguous, and adjacent bars differ in GroupID exactly when
\* they differ in Keyword (so the runs partition the bars and are maximal).
\* The composite key Group tells the same runs apart.
C1_RunsPartition ==
    HasGroupID =>
        /\ Len(stock_data) = Len(CurrentBars)
        /\ \A k \in 1..Len(stock_data) : stock_data[k].GroupID \in 1..Len(stock_data)
        /\ \A k \in 1..(Len(stock_data) - 1) :
             (stock_data[k].GroupID # stock_data[k + 1].GroupID)
                 <=> (stock_data[k].Keyword # stock_data[k + 1].Keyword)
        /\ \A a, b, c \in 1..Len(stock_data) :
             (a < b /\ b < c /\ stock_data[a].GroupID = stock_data[c].GroupID)
                 => stock_data[b].GroupID = stock_data[a].GroupID
        /\ \A a, b \in 1..Len(stock_data) :
             (stock_data[a].Group = stock_data[b].Group)
                 <=> (stock_data[a].GroupID = stock_data[b].GroupID)

\* three bars in two runs, one of them two bars long, just grouped
C1_Witness ==
    /\ pc = "calculate_percentage_differences"
    /\ Len(stock_data) = 3
    /\ stock_data[1].GroupID = stock_data[2].GroupID
    /\ stock_data[2].GroupID # stock_data[3].GroupID

\* C5: mark_keywords labels a bar green iff Open < Close and red otherwise; a
\* bar with Open = Close is red, is in no green group, and is in no valid
\* group, so it is dropped before the summary records are made.
C5_DirectionLabel ==
    /\ HasKeyword =>
         \A k \in 1..Len(stock_data) :
             stock_data[k].Keyword =
                 IF stock_data[k].Open < stock_data[k].Close THEN green ELSE red
    /\ HasBars =>
         \A k \in 1..Len(stock_data) :
             stock_data[k].Open = stock_data[k].Close =>
                 /\ HasKeyword => stock_data[k].Keyword = red
                 /\ HasGroupID => ~Contains(stock_data[k].Group, green)
                 /\ pc = "remove_invalid_rows" => stock_data[k].ValidGroup = <<>>
                 /\ pc # "transform_valid_groups"

\* a bar with Open = Close between two rising bars, just labelled
C5_Witness ==
    /\ pc = "assign_groups"
    /\ Len(stock_data) = 3
    /\ stock_data[1].Keyword = green
    /\ stock_data[2].Open = stock_data[2].Close
    /\ stock_data[3].Keyword = green

\* C6: after calculate_percentage_differences the PercentageDifference at
\* position k is (max High - min Low) / min Low * 100 over the run that bar k
\* is in, so it is the same on all bars of a run, and two up runs apart in
\* the series each have their own value.
C6_RangePerRun ==
    HasPercentageDifference =>
        \A k \in 1..Len(stock_data) :
            stock_data[k].PercentageDifference =
                [num |-> (RunHigh(CurrentBars, k) - RunLow(CurrentBars, k)) * 100,
                 den |-> RunLow(CurrentBars, k)]

\* two up runs with a down bar between them and different ranges
C6_Witness ==
    /\ pc = "identify_valid_groups"
    /\ Len(stock_data) = 3
    /\ stock_data[1].Keyword = green
    /\ stock_data[2].Keyword = red
    /\ stock_data[3].Keyword = green
    /\ stock_data[1].PercentageDifference # stock_data[3].PercentageDifference

\* the records the stages after calculate_percentage_differences make of df
\* with PERCENTAGE_THRESHOLD = t
Summaries(df, t) ==
    transform_valid_groups(remove_invalid_rows(identify_valid_groups_at(df, t)))

\* recs has one record for each up run of B that qualifies at t, and no other
OnePerQualifyingRun(recs, B, t) ==
    /\ Len(recs) = Cardinality(QualifyingStarts(B, t))
    /\ \A k \in 1..Len(recs) : recs[k].EarliestDate \in UpRunStarts(B)
    /\ \A a \in UpRunStarts(B) :
         Cardinality({ k \in 1..Len(recs) : recs[k].EarliestDate = a })
             = IF Qualifies(B, a, t) THEN 1 ELSE 0

\* C2: the pipeline emits exactly one record for an up run whose range_pct is
\* >= the threshold ((high - low) * 100 >= threshold * low when low > 0),
\* none for any other run, and so as many records as qualifying up runs: at
\* the program's threshold, and with the stages run at every other one.
C2_OneRecordPerQualifyingRun ==
    /\ pc = "concat" => OnePerQualifyingRun(stock_data, CurrentBars, PERCENTAGE_THRESHOLD)
    /\ pc = "identify_valid_groups" =>
         \A t \in Thresholds : OnePerQualifyingRun(Summaries(stock_data, t), CurrentBars, t)

\* an up run exactly on the threshold (5 to 6), a down run, and an up run
\* below it (6 to 7): one record, for the first
C2_Witness ==
    /\ pc = "concat"
    /\ Cardinality(UpRunStarts(CurrentBars)) = 2
    /\ \E a \in UpRunStarts(CurrentBars) :
         (RunHigh(CurrentBars, a) - RunLow(CurrentBars, a)) * 100
             = PERCENTAGE_THRESHOLD * RunLow(CurrentBars, a)
    /\ Len(stock_data) = 1

\* C3: an up run whose minimum Low is 0 does not end main with an exception,
\* and no record is emitted for it.
C3_ZeroLowExcluded ==
    /\ (i <= Len(symbols) /\ CurrentBars # <<>>) => error = "none"
    /\ pc = "concat" =>
         \A a \in UpRunStarts(CurrentBars) :
             RunLow(CurrentBars, a) = 0 =>
                 \A k \in 1..Len(stock_data) : stock_data[k].EarliestDate # a

\* C7: with the bars fixed, the groups valid at a threshold t2 are among those
\* valid at any t1 <= t2, and the records are no more.
C7_ThresholdMonotone ==
    pc = "identify_valid_groups" =>
        LET names == Unique(Column(stock_data, "Group"))
            valid == [t \in Thresholds |-> Range(valid_groups(stock_data, names, t))]
            records == [t \in Thresholds |-> Len(Summaries(stock_data, t))]
        IN  \A t1, t2 \in Thresholds :
                t1 <= t2 => (valid[t2] \subseteq valid[t1] /\ records[t2] <= records[t1])

\* two groups valid at 20, one of them still valid at 100
C7_Witness ==
    /\ pc = "identify_valid_groups"
    /\ Len(Summaries(stock_data, 20)) = 2
    /\ Len(Summaries(stock_data, 100)) = 1

\* the GroupID of the run that starts at a: one more than the direction
\* changes before it
RunNumber(B, a) == 1 + Cardinality({ j \in 2..a : Up(B, j) # Up(B, j - 1) })

\* C8: every record transform_valid_groups makes is the record of a
\* qualifying up run: Lowest Low its minimum Low, Highest High its maximum
\* High, Earliest Date the minimum date of its bars (its first bar's),
\* Percentage Difference its range_pct, Symbol the symbol being processed.
C8_RecordFields ==
    pc = "concat" =>
        \A k \in 1..Len(stock_data) :
            \E a \in QualifyingStarts(CurrentBars, PERCENTAGE_THRESHOLD) :
                stock_data[k] =
                    [Symbol |-> symbols[i],
                     LowestLow |-> RunLow(CurrentBars, a),
                     HighestHigh |-> RunHigh(CurrentBars, a),
                     EarliestDate |-> Min(RunOf(CurrentBars, a)),
                     PercentageDifference |->
                         [num |-> (RunHigh(CurrentBars, a) - RunLow(CurrentBars, a)) * 100,
                          den |-> RunLow(CurrentBars, a)],
                     ValidGroup |-> green \o <<"_">> \o Str(RunNumber(CurrentBars, a))]

\* a record of a run of two bars, the Low from the second and the High from
\* the first
C8_Witness ==
    /\ pc = "concat"
    /\ \E k \in 1..Len(stock_data) :
         LET a == stock_data[k].EarliestDate
         IN  /\ a + 1 \in RunOf(CurrentBars, a)
             /\ CurrentBars[a + 1].Low < CurrentBars[a].Low
             /\ CurrentBars[a + 1].High < CurrentBars[a].High

----------------------------------------------------------------------------
(* The batch *)

BarsOf(j) == market[Ticker(symbols[j])].bars
Raised(j) == market[Ticker(symbols[j])].raised

\* the records entry j of symbols is due: one for each qualifying up run
Due(j) ==
    IF Raised(j) THEN 0
    ELSE Cardinality(QualifyingStarts(BarsOf(j), PERCENTAGE_THRESHOLD))

\* for each row of the result of entries 1..n, the entry it is due to
RECURSIVE Owners(_)
Owners(n) == IF n = 0 THEN <<>> ELSE Owners(n - 1) \o Repeat(n, Due(n))

\* rows is the result of entries 1..n: a block of records for each entry, the
\* blocks in the order of the entries, each block in date order
BlocksInOrder(rows, n) ==
    LET owners == Owners(n)
    IN  /\ Len(rows) = Len(owners)
        /\ \A p \in 1..Len(rows) : rows[p].Symbol = symbols[owners[p]]
        /\ \A p, q \in 1..Len(rows) :
             (p < q /\ owners[p] = owners[q])
                 => rows[p].EarliestDate < rows[q].EarliestDate

\* the records of one symbol's run of the stages are in date order, and so
\* are their run identifiers
DateOrdered(recs, B) ==
    \A k \in 1..(Len(recs) - 1) :
        /\ recs[k].EarliestDate < recs[k + 1].EarliestDate
        /\ \E m, n \in 1..Len(B) :
             /\ m < n
             /\ recs[k].ValidGroup = green \o <<"_">> \o Str(m)
             /\ recs[k + 1].ValidGroup = green \o <<"_">> \o Str(n)

Stopped == pc \in {"done", "raised"}
Listed == 1..Len(symbols)

\* C4: a symbol whose fetch fails does not end the batch: the other symbols,
\* before and after it, are processed, and the combined result with their
\* records is written.  (Every other symbol has bars.)
C4_FetchFailureIsolated ==
    (/\ Stopped
     /\ \E j \in Listed : Raised(j)
     /\ \E j \in Listed : ~Raised(j)
     /\ \A j \in Listed : ~Raised(j) => BarsOf(j) # <<>>)
        => /\ pc = "done"
           /\ csv.written
           /\ BlocksInOrder(csv.rows, Len(symbols))

\* C9: a symbol without bars yields no record and no exception, and the
\* batch completes with the records of the other symbols.  (No fetch fails.)
C9_EmptySeriesCompletes ==
    (/\ Stopped
     /\ \E j \in Listed : BarsOf(j) = <<>>
     /\ \E j \in Listed : BarsOf(j) # <<>>
     /\ \A j \in Listed : ~Raised(j))
        => /\ error = "none"
           /\ csv.written
           /\ BlocksInOrder(csv.rows, Len(symbols))

\* C10 as stated: a symbol's records are emitted in date order, and in the
\* combined result all records of a symbol are contiguous.
C10_SymbolRecordsContiguous ==
    /\ pc = "concat" => DateOrdered(stock_data, CurrentBars)
    /\ \A a, b, c \in 1..Len(combined_data) :
         (a < b /\ b < c /\ combined_data[a].Symbol = combined_data[c].Symbol)
             => combined_data[b].Symbol = combined_data[a].Symbol

\* C10, amended: a symbol's records are emitted in date order (and run
\* order), and the combined result is one block of records for each entry of
\* the symbol list, in the order of the entries, also when it is written.
C10_EntryBlocksInOrder ==
    /\ pc = "concat" => DateOrdered(stock_data, CurrentBars)
    /\ pc # "raised" => BlocksInOrder(combined_data, i - 1)
    /\ pc = "done" => BlocksInOrder(csv.rows, Len(symbols))

\* three entries with two records each, written
C10_Witness ==
    /\ pc = "done"
    /\ Len(symbols) = 3
    /\ \A j \in Listed : Due(j) = 2
    /\ Len(csv.rows) = 6

====
